---- MODULE Spec2Model ----
(***************************************************************************)
(* Model of the Sentinel chat assistant: the KQL template registry and     *)
(* query builder (src/queries), the backend query executor                 *)
(* (src/sentinel_client.py), the tool dispatcher (src/tool_handlers.py)    *)
(* and the conversation orchestrator (src/openai_client.py).               *)
(*                                                                         *)
(* Two specifications share the module.  Spec drives one tool dispatch at  *)
(* a time through the dispatcher and the executor against a backend that   *)
(* answers each query nondeterministically.  SpecChat drives a chat        *)
(* session (send_message / clear) against a model service and a            *)
(* dispatcher whose answers are nondeterministic.                          *)
(***************************************************************************)
EXTENDS Integers, Sequences, FiniteSets, TLC

(***************************************************************************)
(* Bounds of the model                                                     *)
(***************************************************************************)
\* most rows a backend table carries in the model
MaxRows == 2
\* most incidents the primary lookup of get_incident_detail matches
MaxIncidents == 2

(***************************************************************************)
(* Python values carried by tool arguments and backend columns             *)
(***************************************************************************)
NoneV == [t |-> "none", n |-> 0, s |-> ""]
\* the key is not in the dict / the column is not in the row
AbsentV == [t |-> "absent", n |-> 0, s |-> ""]
IntV(n) == [t |-> "int", n |-> n, s |-> ""]
StrV(s) == [t |-> "str", n |-> 0, s |-> s]

\* dict.get(key, default)
Get(d, k, default) == IF d[k].t = "absent" THEN default ELSE d[k]

(***************************************************************************)
(* Text conversions: str(int) and int(str)                                 *)
(***************************************************************************)
Digits == <<"0", "1", "2", "3", "4", "5", "6", "7", "8", "9">>

RECURSIVE NatToStr(_)
NatToStr(n) == IF n < 10 THEN Digits[n + 1]
               ELSE NatToStr(n \div 10) \o Digits[(n % 10) + 1]

\* str(n) for a Python int
IntToStr(n) == IF n < 0 THEN "-" \o NatToStr(-n) ELSE NatToStr(n)

CharAt(s, i) == SubSeq(s, i, i)

IsDigit(c) == \E d \in 1..10 : Digits[d] = c

DigitVal(c) == (CHOOSE d \in 1..10 : Digits[d] = c) - 1

RECURSIVE LStrip(_)
LStrip(s) == IF Len(s) > 0 /\ CharAt(s, 1) = " "
             THEN LStrip(SubSeq(s, 2, Len(s))) ELSE s

RECURSIVE RStrip(_)
RStrip(s) == IF Len(s) > 0 /\ CharAt(s, Len(s)) = " "
             THEN RStrip(SubSeq(s, 1, Len(s) - 1)) ELSE s

RECURSIVE AllDigits(_)
AllDigits(s) == IF Len(s) = 0 THEN TRUE
                ELSE IsDigit(CharAt(s, 1)) /\ AllDigits(SubSeq(s, 2, Len(s)))

RECURSIVE DigitsVal(_, _)
DigitsVal(s, acc) == IF Len(s) = 0 THEN acc
                     ELSE DigitsVal(SubSeq(s, 2, Len(s)),
                                    acc * 10 + DigitVal(CharAt(s, 1)))

\* int(s) for a Python str: surrounding blanks are ignored, one optional
\* sign, then at least one decimal digit; anything else is a ValueError.
PyInt(s) ==
    LET b == RStrip(LStrip(s))
        signed == Len(b) > 0 /\ CharAt(b, 1) \in {"-", "+"}
        body == IF signed THEN SubSeq(b, 2, Len(b)) ELSE b
    IN  IF Len(body) > 0 /\ AllDigits(body)
        THEN [ok |-> TRUE,
              n |-> IF signed /\ CharAt(b, 1) = "-"
                    THEN 0 - DigitsVal(body, 0) ELSE DigitsVal(body, 0)]
        ELSE [ok |-> FALSE, n |-> 0]

\* str(v), as str.format applies it to a substituted parameter
Format(v) == CASE v.t = "int" -> IntToStr(v.n)
               [] v.t = "str" -> v.s
               [] OTHER -> "None"

(***************************************************************************)
(* src/queries: static tables                                              *)
(***************************************************************************)
SEVERITY_ORDER == <<"Informational", "Low", "Medium", "High">>

\* list.index(x), 0 when x is not in the list (the ValueError branch)
SeverityIndex(min_severity) ==
    IF min_severity.t = "str"
       /\ \E i \in 1..Len(SEVERITY_ORDER) : SEVERITY_ORDER[i] = min_severity.s
    THEN CHOOSE i \in 1..Len(SEVERITY_ORDER) : SEVERITY_ORDER[i] = min_severity.s
    ELSE 1

RECURSIVE JoinQuoted(_)
JoinQuoted(levels) ==
    IF Len(levels) = 0 THEN ""
    ELSE IF Len(levels) = 1 THEN "'" \o levels[1] \o "'"
    ELSE "'" \o levels[1] \o "'," \o JoinQuoted(Tail(levels))

\* the levels up to the threshold instead of those from it
severity_included_upTo(min_severity) ==
    SubSeq(SEVERITY_ORDER, 1, SeverityIndex(min_severity))

\* included = SEVERITY_ORDER[idx:]
severity_included(min_severity) ==
    SubSeq(SEVERITY_ORDER, SeverityIndex(min_severity), Len(SEVERITY_ORDER))

severity_filter(min_severity) == JoinQuoted(severity_included(min_severity))

\* TIME_WINDOWS: key -> kql_ago token
TIME_WINDOWS ==
    [last_1h |-> "1h", last_24h |-> "24h", last_3d |-> "3d",
     last_7d |-> "7d", last_14d |-> "14d", last_30d |-> "30d"]

\* `time_window not in TIME_WINDOWS`
InTimeWindows(tw) == tw.t = "str" /\ tw.s \in DOMAIN TIME_WINDOWS

MAX_LIMIT_incident_list == 100
MAX_LIMIT_alert_list == 100
MAX_LIMIT_top_entities == 50
NAME_LOOKUP_LIMIT == 10

_BIN_SIZE_MAP ==
    [last_1h |-> "1h", last_24h |-> "1h", last_3d |-> "1d",
     last_7d |-> "1d", last_14d |-> "1d", last_30d |-> "1d"]

\* TEMPLATE_REGISTRY: template name -> the placeholders of its body
TEMPLATE_REGISTRY ==
    [list_incidents |-> {"time_range", "severity_filter", "limit"},
     get_incident_by_number |-> {"incident_number"},
     get_incident_by_name |-> {"incident_name", "limit"},
     get_incident_alerts |-> {"incident_number"},
     get_incident_entities |-> {"incident_number"},
     list_alerts |-> {"time_range", "severity_filter", "limit"},
     alert_trend |-> {"time_range", "severity_filter", "bin_size"},
     alert_trend_total |-> {"time_range", "severity_filter", "bin_size"},
     top_entities |-> {"time_range", "severity_filter", "limit"}]

\* a build_query that reports only one of the missing parameters
build_query_firstMissing(template_name, params) ==
    IF template_name \notin DOMAIN TEMPLATE_REGISTRY
    THEN [ok |-> FALSE, error |-> "unknown_template", missing |-> {}]
    ELSE LET missing == TEMPLATE_REGISTRY[template_name] \ DOMAIN params
         IN  IF missing # {}
             THEN [ok |-> FALSE, error |-> "missing_parameters",
                   missing |-> {CHOOSE p \in missing : TRUE}]
             ELSE [ok |-> TRUE,
                   template |-> template_name,
                   subst |-> [p \in TEMPLATE_REGISTRY[template_name]
                                 |-> Format(params[p])]]

\* build_query: the rendered query is the fixed template body with the text
\* of each supplied parameter put in place of its placeholder.  params maps
\* parameter names to Python values.
build_query(template_name, params) ==
    IF template_name \notin DOMAIN TEMPLATE_REGISTRY
    THEN [ok |-> FALSE, error |-> "unknown_template", missing |-> {}]
    ELSE LET missing == TEMPLATE_REGISTRY[template_name] \ DOMAIN params
         IN  IF missing # {}
             THEN [ok |-> FALSE, error |-> "missing_parameters",
                   missing |-> missing]
             ELSE [ok |-> TRUE,
                   template |-> template_name,
                   subst |-> [p \in TEMPLATE_REGISTRY[template_name]
                                 |-> Format(params[p])]]

(***************************************************************************)
(* src/models.py: result wrappers                                          *)
(***************************************************************************)
QueryError(code, message, retry_possible) ==
    [type |-> "QueryError", code |-> code, message |-> message,
     retry_possible |-> retry_possible]

QueryMetadata(total, truncated, partial_error) ==
    [total |-> total, truncated |-> truncated, partial_error |-> partial_error]

QueryResult(metadata, results) ==
    [type |-> "QueryResult", metadata |-> metadata, results |-> results]

\* QueryResult.to_dict / QueryError.to_dict: the plain dict handed to the model
to_dict(res) ==
    IF res.type = "QueryError"
    THEN [code |-> res.code, message |-> res.message,
          retry_possible |-> res.retry_possible]
    ELSE [metadata |-> res.metadata, results |-> res.results]

(***************************************************************************)
(* The backend (LogsQueryClient.query_workspace) as the executor sees it   *)
(***************************************************************************)
\* A row maps the column names it carries to values; a column the table does
\* not have is outside the row's domain.
EmptyRow == <<>>

RowGet(row, col, default) == IF col \in DOMAIN row THEN row[col] ELSE default

IntColumnValues == {IntV(1), NoneV}

\* the column of each template's table that the parser converts with int()
IntColumn ==
    [list_incidents |-> "IncidentNumber",
     get_incident_by_number |-> "IncidentNumber",
     get_incident_by_name |-> "IncidentNumber",
     alert_trend |-> "Count",
     alert_trend_total |-> "Count",
     top_entities |-> "AlertCount"]

\* the rows a table of the template's query may hold; a row of the incident
\* list may also carry a column the parser has no use for
RowsOf(template) ==
    IF template = "list_incidents"
    THEN {EmptyRow, [IncidentNumber |-> NoneV],
          [IncidentNumber |-> IntV(1), EntityCount |-> IntV(3)]}
    ELSE IF template \in DOMAIN IntColumn
    THEN {EmptyRow} \cup
         {[c \in {IntColumn[template]} |-> v] : v \in IntColumnValues}
    ELSE IF template = "get_incident_entities"
    THEN {[EntityType |-> StrV("ip"), EntityName |-> StrV("10.0.0.1")]}
    ELSE {[AlertName |-> StrV("Brute force")]}

RECURSIVE SeqsUpTo(_, _)
SeqsUpTo(S, n) ==
    IF n = 0 THEN {<<>>}
    ELSE LET shorter == SeqsUpTo(S, n - 1)
         IN  shorter \cup {Append(q, x) : q \in {r \in shorter : Len(r) = n - 1},
                                           x \in S}

\* (status code of e.response or 0 when there is none, e.error.code)
HttpFailures ==
    {<<0, NoneV>>, <<400, StrV("BadArgumentError")>>,
     <<401, StrV("AuthenticationFailed")>>,
     <<429, StrV("ServiceError")>>, <<500, StrV("ServiceError")>>,
     <<502, StrV("ServiceError")>>, <<503, StrV("ServiceError")>>,
     <<504, StrV("ServiceError")>>}

Response(status, rows, has_error, status_code, error_code) ==
    [status |-> status, rows |-> rows, has_error |-> has_error,
     status_code |-> status_code, error_code |-> error_code]

NoReply == Response("none", <<>>, FALSE, 0, NoneV)

PrimaryTemplates == {"get_incident_by_number", "get_incident_by_name"}

DependentTemplates == {"get_incident_alerts", "get_incident_entities"}

Tables(template) ==
    SeqsUpTo(RowsOf(template),
             IF template \in PrimaryTemplates THEN MaxIncidents ELSE MaxRows)

\* the answers the backend can give to a query of the given template.  A
\* dependent query of the detail lookup is answered with full or partial
\* rows, a transient HTTP failure or an unexpected exception; every other
\* query with each status and each failure.
Responses(template) ==
    IF template \in DependentTemplates
    THEN {Response(st, rows, st = "PARTIAL", 0, NoneV) :
            st \in {"SUCCESS", "PARTIAL"}, rows \in Tables(template)}
         \cup {Response("HttpResponseError", <<>>, FALSE, 503,
                         StrV("ServiceError")),
               Response("Exception", <<>>, FALSE, 0, NoneV)}
    ELSE {Response("SUCCESS", rows, FALSE, 0, NoneV) :
            rows \in Tables(template)}
         \cup {Response("PARTIAL", rows, he, 0, NoneV) :
                 rows \in Tables(template), he \in BOOLEAN}
         \cup {Response("FAILURE", <<>>, FALSE, 0, NoneV)}
         \cup {Response("HttpResponseError", <<>>, FALSE, f[1], f[2]) :
                 f \in HttpFailures}
         \cup {Response("Exception", <<>>, FALSE, 0, NoneV)}

(***************************************************************************)
(* src/sentinel_client.py: SentinelClient                                  *)
(***************************************************************************)
\* a classification that takes every 4xx/5xx status for transient
RETRYABLE_STATUS_CODES_anyHttpError == {400, 401, 429, 500, 502, 503, 504}

RETRYABLE_STATUS_CODES == {429, 500, 502, 503, 504}

\* _execute_query, from the backend's answer on: the (tables, is_partial,
\* error_msg) tuple or a QueryError
_execute_query(resp) ==
    CASE resp.status = "SUCCESS" ->
            [type |-> "tuple", tables |-> resp.rows, is_partial |-> FALSE,
             partial_error |-> NoneV]
      [] resp.status = "PARTIAL" ->
            [type |-> "tuple", tables |-> resp.rows, is_partial |-> TRUE,
             partial_error |-> IF resp.has_error
                               THEN StrV("PartialError: diagnostic")
                               ELSE StrV("Partial results")]
      [] resp.status = "HttpResponseError" ->
            QueryError(IF resp.error_code.t = "none" THEN "http_error"
                       ELSE resp.error_code.s,
                       "http error",
                       resp.status_code \in RETRYABLE_STATUS_CODES)
      [] resp.status = "Exception" ->
            QueryError("unknown", "unexpected error", FALSE)
      [] OTHER ->
            QueryError("unexpected_status", "Unexpected query status", FALSE)

\* int(x) on a column value: [ok |-> FALSE] is the TypeError / ValueError
PyIntOf(v) == CASE v.t = "int" -> [ok |-> TRUE, n |-> v.n]
                [] v.t = "str" -> PyInt(v.s)
                [] OTHER -> [ok |-> FALSE, n |-> 0]

\* whether int(row_dict.get(col, 0)) raises on some row
IntParseRaises(tables, col) ==
    \E i \in 1..Len(tables) : ~PyIntOf(RowGet(tables[i], col, IntV(0))).ok

\* _parse_incidents: number and entity_count of each row
_parse_incidents(tables) ==
    [i \in 1..Len(tables) |->
        [number |-> PyIntOf(RowGet(tables[i], "IncidentNumber", IntV(0))).n,
         entity_count |-> 0]]

\* _parse_trend_points
_parse_trend_points(tables) ==
    [i \in 1..Len(tables) |->
        [count |-> PyIntOf(RowGet(tables[i], "Count", IntV(0))).n]]

\* _parse_entity_counts
_parse_entity_counts(tables) ==
    [i \in 1..Len(tables) |->
        [entity_type |-> Format(RowGet(tables[i], "EntityType", StrV(""))),
         entity_name |-> Format(RowGet(tables[i], "EntityName", StrV(""))),
         count |-> PyIntOf(RowGet(tables[i], "AlertCount", IntV(0))).n]]

\* _parse_alerts
_parse_alerts(tables) ==
    [i \in 1..Len(tables) |->
        [name |-> Format(RowGet(tables[i], "AlertName", StrV("")))]]

\* _parse_entities
_parse_entities(tables) ==
    [i \in 1..Len(tables) |->
        [entity_type |-> Format(RowGet(tables[i], "EntityType", StrV(""))),
         entity_name |-> Format(RowGet(tables[i], "EntityName", StrV("")))]]

Min(a, b) == IF a < b THEN a ELSE b

(***************************************************************************)
(* State                                                                   *)
(***************************************************************************)
VARIABLES
    \* --- dispatcher and executor (Spec) ---
    vector_store,   \* whether the dispatcher was built with a knowledge base
    dpc,            \* "idle", "waiting" (a backend query is in flight),
                    \* "done" (dispatch returned), "raised" (it raised)
    tool,           \* name of the tool being dispatched
    args,           \* its argument dict
    calls,          \* executor calls of this dispatch: <<[method, kw], ...>>
    exec_results,   \* what the executor calls that returned have returned
    sent,           \* queries handed to the backend during this dispatch
    reply,          \* the backend's answer the executor returned or raised
                    \* on (none while a query is in flight)
    outcome,        \* what _execute_query made of that answer
    frame,          \* locals of the executor method waiting for the backend
    ret,            \* what dispatch returned
    kb_calls        \* knowledge-base searches made by this dispatch

execVars == <<vector_store, dpc, tool, args, calls, exec_results, sent,
              reply,
              outcome, frame, ret, kb_calls>>

\* the latest direct calls of the query builders (src/queries/__init__.py)
VARIABLES
    build_call,     \* the latest build_query call, with what it came to
    filter_call     \* the latest severity_filter call, with what it returned

queryVars == <<build_call, filter_call>>

\* the state of a ChatSession (src/openai_client.py)
VARIABLES
    max_tool_rounds,  \* self._max_tool_rounds
    max_turns,        \* self._max_turns
    messages,         \* self._messages
    turn_count,       \* self._turn_count
    cpc,              \* "new", "idle", or where the running call stands:
                      \* "model", "tools", "final_model", "clear_model";
                      \* "raised" once a call has raised
    round,            \* _round of the tool loop
    tc_idx,           \* position in response_message.tool_calls
    op,               \* the call running or last run: send_message / clear
    model_calls,      \* chat.completions.create calls of that call
    responses,        \* the response_message of each of them
    dispatched,       \* call ids passed to dispatch in the current round
    synthetic,        \* MAX_ROUNDS_MESSAGE appends of that call
    returned,         \* what the last completed call returned
    next_id,          \* the next unused tool-call id
    session_calls,    \* model calls of the session so far
    full_messages     \* send_message's local list, <<>> outside send_message

chatVars == <<max_tool_rounds, max_turns, messages, turn_count, cpc, round,
              tc_idx, op, model_calls, responses, dispatched, synthetic,
              returned, next_id, session_calls, full_messages>>

NoResult == [type |-> "none"]
NoFrame == [method |-> "none"]
NoRet == [pending |-> TRUE]

\* what a stretch of executor code ends in: a return, an exception, or a
\* query handed to the backend with the locals that wait for its answer
Return(res) == [k |-> "return", res |-> res]
Raise(exc) == [k |-> "raise", exc |-> exc]
Send(query, fr) == [k |-> "send", query |-> query, frame |-> fr]

Frame(method, kw, phase) ==
    [method |-> method, kw |-> kw, phase |-> phase, incidents |-> <<>>,
     i |-> 0, all_alerts |-> <<>>, all_entities |-> <<>>,
     is_partial |-> FALSE, partial_error |-> NoneV]

\* an invalid window reported as a retryable error
InvalidTimeWindow_retryable ==
    QueryError("invalid_time_window", "Unknown time window", TRUE)

InvalidTimeWindow ==
    QueryError("invalid_time_window", "Unknown time window", FALSE)

\* render a query and hand it to _execute_query; build_query's ValueError
\* is not caught by the caller
Render(template, params, fr) ==
    LET q == build_query(template, params)
    IN  IF q.ok THEN Send(q, fr) ELSE Raise("ValueError")

\* min(limit, cap): comparing None or a str with an int is a TypeError
ClampRaises(limit) == limit.t # "int"

\* a clamp that lets the requested limit through
Clamp_unclamped(limit, cap) == limit

Clamp(limit, cap) == IntV(Min(limit.n, cap))

\* the list operations up to the backend call: validate the window, clamp
\* the limit, render
ListQuery(method, template, cap, kw) ==
    IF ~InTimeWindows(kw.time_window) THEN Return(InvalidTimeWindow)
    ELSE IF ClampRaises(kw.limit) THEN Raise("TypeError")
    ELSE Render(template,
                [time_range |-> StrV(TIME_WINDOWS[kw.time_window.s]),
                 severity_filter |-> StrV(severity_filter(kw.min_severity)),
                 limit |-> Clamp(kw.limit, cap)],
                Frame(method, kw, "single"))

query_incidents(kw) ==
    ListQuery("query_incidents", "list_incidents", MAX_LIMIT_incident_list, kw)

query_alerts(kw) ==
    ListQuery("query_alerts", "list_alerts", MAX_LIMIT_alert_list, kw)

get_top_entities(kw) ==
    ListQuery("get_top_entities", "top_entities", MAX_LIMIT_top_entities, kw)

get_alert_trend(kw) ==
    IF ~InTimeWindows(kw.time_window) THEN Return(InvalidTimeWindow)
    ELSE LET bin_size == IF kw.bin_size.t = "none"
                         THEN StrV(_BIN_SIZE_MAP[kw.time_window.s])
                         ELSE kw.bin_size
         IN  Render("alert_trend",
                    [time_range |-> StrV(TIME_WINDOWS[kw.time_window.s]),
                     severity_filter |-> StrV(severity_filter(kw.min_severity)),
                     bin_size |-> bin_size],
                    Frame("get_alert_trend", kw, "single"))

get_incident_detail(kw) ==
    IF kw.incident_ref.t = "int"
    THEN Render("get_incident_by_number",
                [incident_number |-> kw.incident_ref],
                Frame("get_incident_detail", kw, "primary"))
    ELSE Render("get_incident_by_name",
                [incident_name |-> StrV(Format(kw.incident_ref)),
                 limit |-> IntV(NAME_LOOKUP_LIMIT)],
                Frame("get_incident_detail", kw, "primary"))

\* entry of an executor method
ExecEnter(method, kw) ==
    CASE method = "query_incidents" -> query_incidents(kw)
      [] method = "query_alerts" -> query_alerts(kw)
      [] method = "get_top_entities" -> get_top_entities(kw)
      [] method = "get_alert_trend" -> get_alert_trend(kw)
      [] method = "get_incident_detail" -> get_incident_detail(kw)

\* column converted with int() and parser of each single-query operation
SingleIntColumn ==
    [query_incidents |-> "IncidentNumber", get_alert_trend |-> "Count",
     get_top_entities |-> "AlertCount"]

SingleParse(method, tables) ==
    CASE method = "query_incidents" -> _parse_incidents(tables)
      [] method = "query_alerts" -> _parse_alerts(tables)
      [] method = "get_alert_trend" -> _parse_trend_points(tables)
      [] method = "get_top_entities" -> _parse_entity_counts(tables)

\* the single-query operations from _execute_query's return on
SingleResult(fr, r) ==
    IF r.type = "QueryError" THEN Return(r)
    ELSE IF fr.method \in DOMAIN SingleIntColumn
            /\ IntParseRaises(r.tables, SingleIntColumn[fr.method])
    THEN Raise("TypeError")
    ELSE LET results == SingleParse(fr.method, r.tables)
         IN  Return(QueryResult(
                 QueryMetadata(Len(results), r.is_partial, r.partial_error),
                 results))

IncidentQuery(template, fr, idx, phase) ==
    Render(template,
           [incident_number |-> IntV(fr.incidents[idx].number)],
           [fr EXCEPT !.phase = phase, !.i = idx])

DetailReturn(fr) ==
    Return(QueryResult(
        QueryMetadata(Len(fr.incidents), fr.is_partial, fr.partial_error),
        <<[incidents |-> fr.incidents, alerts |-> fr.all_alerts,
           entities |-> fr.all_entities]>>))

\* a count of every entity collected so far
EntityCount_total(all_entities, incident_entities) == Len(all_entities)

\* incident.entity_count = len(incident_entities)
EntityCount(all_entities, incident_entities) == Len(incident_entities)

\* get_incident_detail from the return of each of its _execute_query calls on
DetailResult(fr, r) ==
    CASE fr.phase = "primary" ->
            IF r.type = "QueryError" THEN Return(r)
            ELSE IF IntParseRaises(r.tables, "IncidentNumber")
            THEN Raise("TypeError")
            ELSE LET f1 == [fr EXCEPT !.incidents = _parse_incidents(r.tables),
                                      !.is_partial = r.is_partial,
                                      !.partial_error = r.partial_error]
                 IN  IF Len(f1.incidents) = 0 THEN DetailReturn(f1)
                     ELSE IncidentQuery("get_incident_alerts", f1, 1, "alerts")
      [] fr.phase = "alerts" ->
            LET f1 == IF r.type = "QueryError" THEN fr
                      ELSE [fr EXCEPT !.all_alerts =
                                @ \o _parse_alerts(r.tables)]
            IN  IncidentQuery("get_incident_entities", f1, fr.i, "entities")
      [] fr.phase = "entities" ->
            LET f1 == IF r.type = "QueryError" THEN fr
                      ELSE LET incident_entities == _parse_entities(r.tables)
                           IN [fr EXCEPT
                                 !.all_entities = @ \o incident_entities,
                                 !.incidents[fr.i].entity_count =
                                     EntityCount(fr.all_entities
                                                     \o incident_entities,
                                                 incident_entities)]
            IN  IF fr.i < Len(f1.incidents)
                THEN IncidentQuery("get_incident_alerts", f1, fr.i + 1, "alerts")
                ELSE DetailReturn(f1)

\* the waiting executor method resumes with the backend's answer
ExecResume(fr, resp) ==
    IF fr.method = "get_incident_detail"
    THEN DetailResult(fr, _execute_query(resp))
    ELSE SingleResult(fr, _execute_query(resp))

(***************************************************************************)
(* src/tool_handlers.py: ToolDispatcher                                    *)
(***************************************************************************)
CORE_TOOLS == {"query_incidents", "get_incident_detail", "query_alerts",
               "get_alert_trend", "get_top_entities"}

KB_TOOLS == {"search_similar_incidents", "search_playbooks",
             "get_investigation_guidance"}

\* tool names the model can send
ToolNames == CORE_TOOLS \cup KB_TOOLS \cup {"unknown_tool"}

\* a map that registers the knowledge-base tools unconditionally
_dispatch_map_withKb(has_vector_store) == CORE_TOOLS \cup KB_TOOLS

\* _dispatch_map as built by __init__
_dispatch_map(has_vector_store) ==
    IF has_vector_store THEN CORE_TOOLS \cup KB_TOOLS ELSE CORE_TOOLS

NoArgs == [time_window |-> AbsentV, min_severity |-> AbsentV,
           limit |-> AbsentV, incident_ref |-> AbsentV,
           bin_size |-> AbsentV, query |-> AbsentV]

TimeWindowArgs == {AbsentV, NoneV, StrV("last_1h"), StrV("yesterday")}

SeverityArgs == {AbsentV, StrV("Medium"), StrV("Critical")}

LimitArgs == {AbsentV, NoneV, IntV(-1), IntV(0), IntV(50), IntV(51),
              IntV(100), IntV(101), IntV(500)}

IncidentRefArgs == {AbsentV, NoneV, IntV(1), StrV(" 42 "),
                    StrV("x\" or 1 == 1 //")}

BinSizeArgs == {AbsentV, NoneV, StrV("1h"), StrV("1d), Extra")}

\* argument dicts the model can send with a tool call
ArgsOf(t) ==
    CASE t \in {"query_incidents", "query_alerts", "get_top_entities"} ->
            {[NoArgs EXCEPT !.time_window = tw, !.min_severity = sv,
                            !.limit = lm] :
                tw \in TimeWindowArgs, sv \in SeverityArgs, lm \in LimitArgs}
      [] t = "get_alert_trend" ->
            {[NoArgs EXCEPT !.time_window = tw, !.min_severity = sv,
                            !.bin_size = bs] :
                tw \in TimeWindowArgs, sv \in SeverityArgs, bs \in BinSizeArgs}
      [] t = "get_incident_detail" ->
            {[NoArgs EXCEPT !.incident_ref = r] : r \in IncidentRefArgs}
      [] OTHER ->
            {NoArgs, [NoArgs EXCEPT !.query = StrV("phishing")]}

\* a handler either answers on its own, searches the knowledge base, or
\* goes to the executor through _call_with_retry
Direct(d) == [k |-> "direct", ret |-> d]
Kb(n) == [k |-> "kb", n |-> n]
Call(method, kw) == [k |-> "call", method |-> method, kw |-> kw]

_query_incidents(a) ==
    Call("query_incidents",
         [time_window |-> Get(a, "time_window", StrV("last_24h")),
          min_severity |-> Get(a, "min_severity", StrV("Informational")),
          limit |-> Get(a, "limit", IntV(20))])

_query_alerts(a) ==
    Call("query_alerts",
         [time_window |-> Get(a, "time_window", StrV("last_24h")),
          min_severity |-> Get(a, "min_severity", StrV("Informational")),
          limit |-> Get(a, "limit", IntV(20))])

_get_top_entities(a) ==
    Call("get_top_entities",
         [time_window |-> Get(a, "time_window", StrV("last_7d")),
          min_severity |-> Get(a, "min_severity", StrV("Informational")),
          limit |-> Get(a, "limit", IntV(10))])

_get_alert_trend(a) ==
    Call("get_alert_trend",
         [time_window |-> Get(a, "time_window", StrV("last_7d")),
          min_severity |-> Get(a, "min_severity", StrV("Informational")),
          bin_size |-> Get(a, "bin_size", NoneV)])

_get_incident_detail(a) ==
    LET incident_ref == Get(a, "incident_ref", NoneV)
    IN  IF incident_ref.t = "none"
        THEN Direct([error |-> "Missing required parameter: incident_ref"])
        ELSE IF incident_ref.t = "str" /\ PyInt(incident_ref.s).ok
        THEN Call("get_incident_detail",
                  [incident_ref |-> IntV(PyInt(incident_ref.s).n)])
        ELSE Call("get_incident_detail", [incident_ref |-> incident_ref])

\* the knowledge-base handlers: one search, or two for the combined guidance
KbHandler(t, has_vector_store) ==
    IF ~has_vector_store
    THEN Direct([error |-> "Knowledge base is not available. "
                           \o "Try restarting the chatbot."])
    ELSE IF t = "get_investigation_guidance" THEN Kb(2) ELSE Kb(1)

\* dispatch up to the handler's first step
dispatch(t, a, has_vector_store) ==
    IF t \notin _dispatch_map(has_vector_store)
    THEN Direct([error |-> "Unknown tool: " \o t])
    ELSE CASE t = "query_incidents" -> _query_incidents(a)
           [] t = "get_incident_detail" -> _get_incident_detail(a)
           [] t = "query_alerts" -> _query_alerts(a)
           [] t = "get_alert_trend" -> _get_alert_trend(a)
           [] t = "get_top_entities" -> _get_top_entities(a)
           [] OTHER -> KbHandler(t, has_vector_store)

\* a dispatcher that retries a second time
RetryAllowed_twice(n) == n <= 2

\* _call_with_retry tests the result of the first call only
RetryAllowed(n) == n = 1

\* _call_with_retry's test after the n-th executor call ended in o: only
\* the first call is followed by the test
\* a retry test that ignores retry_possible
NeedsRetry_anyError(o, n) ==
    /\ n = 1
    /\ o.k = "return"
    /\ o.res.type = "QueryError"

NeedsRetry(o, n) ==
    /\ RetryAllowed(n)
    /\ o.k = "return"
    /\ o.res.type = "QueryError"
    /\ o.res.retry_possible

\* the dispatch goes on until it returns, raises or waits for the backend;
\* resp is the backend answer it was resumed with
Land(o, c, f, s, resp) ==
    /\ calls' = c
    /\ exec_results' = f
    /\ CASE o.k = "send" ->
              /\ dpc' = "waiting"
              /\ sent' = Append(s, o.query)
              /\ frame' = o.frame
              /\ ret' = NoRet
              /\ reply' = NoReply
              /\ outcome' = NoResult
         [] o.k = "raise" ->
              /\ dpc' = "raised"
              /\ sent' = s
              /\ frame' = NoFrame
              /\ ret' = [raised |-> o.exc]
              /\ reply' = resp
              /\ outcome' = IF resp = NoReply THEN NoResult
                             ELSE _execute_query(resp)
         [] o.k = "return" ->
              /\ dpc' = "done"
              /\ sent' = s
              /\ frame' = NoFrame
              /\ ret' = to_dict(o.res)
              /\ reply' = resp
              /\ outcome' = IF resp = NoReply THEN NoResult
                             ELSE _execute_query(resp)

\* _call_with_retry once the n-th executor call (the last of c) ended in o
_call_with_retry(o, n, c, f, s, resp) ==
    LET f1 == IF o.k = "return" THEN Append(f, o.res) ELSE f
        again == c[Len(c)]
        o2 == ExecEnter(again.method, again.kw)
    IN  IF NeedsRetry(o, n)
        THEN Land(o2, Append(c, again),
                  IF o2.k = "return" THEN Append(f1, o2.res) ELSE f1, s,
                  resp)
        ELSE Land(o, c, f1, s, resp)

\* the orchestrator (or any caller) dispatches tool t with arguments a
Dispatch(t, a) ==
    /\ dpc = "idle"
    /\ tool' = t
    /\ args' = a
    /\ LET h == dispatch(t, a, vector_store)
       IN  CASE h.k = "direct" ->
                  /\ dpc' = "done"
                  /\ ret' = h.ret
                  /\ calls' = <<>> /\ exec_results' = <<>> /\ sent' = <<>>
                  /\ frame' = NoFrame /\ kb_calls' = 0
                  /\ reply' = NoReply /\ outcome' = NoResult
             [] h.k = "kb" ->
                  /\ dpc' = "done"
                  /\ ret' = [type |-> "kb_result"]
                  /\ calls' = <<>> /\ exec_results' = <<>> /\ sent' = <<>>
                  /\ frame' = NoFrame /\ kb_calls' = h.n
                  /\ reply' = NoReply /\ outcome' = NoResult
             [] h.k = "call" ->
                  /\ kb_calls' = 0
                  /\ _call_with_retry(ExecEnter(h.method, h.kw), 1,
                                      <<[method |-> h.method, kw |-> h.kw]>>,
                                      <<>>, <<>>, NoReply)
    /\ UNCHANGED <<vector_store, chatVars,
                   queryVars>>

\* the backend answers the query in flight and the executor runs on
BackendReply(resp) ==
    /\ dpc = "waiting"
    /\ _call_with_retry(ExecResume(frame, resp), Len(calls), calls,
                        exec_results, sent, resp)
    /\ UNCHANGED <<vector_store, tool, args, kb_calls, chatVars,
                   queryVars>>

\* the caller has taken the result (or the exception); the dispatcher keeps
\* nothing from one dispatch to the next
Finish ==
    /\ dpc \in {"done", "raised"}
    /\ dpc' = "idle"
    /\ tool' = "none"
    /\ args' = NoArgs
    /\ calls' = <<>>
    /\ exec_results' = <<>>
    /\ sent' = <<>>
    /\ reply' = NoReply
    /\ outcome' = NoResult
    /\ frame' = NoFrame
    /\ ret' = NoRet
    /\ kb_calls' = 0
    /\ UNCHANGED <<vector_store, chatVars,
                   queryVars>>

InitExec ==
    /\ vector_store \in BOOLEAN
    /\ dpc = "idle"
    /\ tool = "none"
    /\ args = NoArgs
    /\ calls = <<>>
    /\ exec_results = <<>>
    /\ sent = <<>>
    /\ reply = NoReply
    /\ outcome = NoResult
    /\ frame = NoFrame
    /\ ret = NoRet
    /\ kb_calls = 0

(***************************************************************************)
(* src/openai_client.py: ChatSession                                       *)
(***************************************************************************)
\* the tool-round budgets and turn limits a session is configured with
MaxToolRounds == 2

MaxTurns == 3

\* the most tool calls one model response requests
MaxToolCalls == 2

\* the most model calls of one session
MaxModelCalls == 6

SYSTEM_PROMPT == "system prompt"

MAX_ROUNDS_MESSAGE == "summarize what you have found so far"

CLEAR_SUMMARY_TEMPLATE == "summarize this conversation"

\* message.content of a model response: "" is a missing (None) or empty one
ModelContents == {"", "answer"}

\* a history entry; an assistant entry without the tool_calls key has <<>>
Message(role, content, tool_calls, tool_call_id) ==
    [role |-> role, content |-> content, tool_calls |-> tool_calls,
     tool_call_id |-> tool_call_id]

UserMessage(content) == Message("user", content, <<>>, 0)

AssistantMessage(content, tool_calls) ==
    Message("assistant", content, tool_calls, 0)

ToolMessage(tc, content) == Message("tool", content, <<>>, tc.id)

\* a message list without the system prompt
FullMessages_noSystem(msgs) == msgs

\* [{"role": "system", "content": SYSTEM_PROMPT}, *self._messages]
FullMessages(msgs) == <<Message("system", SYSTEM_PROMPT, <<>>, 0)>> \o msgs

\* src/tools.py: the names of the functions in SENTINEL_TOOLS
SENTINEL_TOOLS ==
    {"query_incidents", "get_incident_detail", "query_alerts",
     "get_alert_trend", "get_top_entities"}

\* the record of one chat.completions.create call: whether it carries the
\* tool schema, and the message list it passes with its ends and its length
Create(msgs, tools) ==
    [tools |-> tools, offered |-> IF tools THEN SENTINEL_TOOLS ELSE {},
     messages |-> msgs, first |-> msgs[1],
     last |-> msgs[Len(msgs)], length |-> Len(msgs)]

\* the n tool calls of a response, with ids not used before
ToolCalls(n, first_id) ==
    [i \in 1..n |-> [id |-> first_id + i - 1, name |-> "query_incidents"]]

\* indices of the "user" messages, ascending
UserIndices(msgs) ==
    SelectSeq([i \in 1..Len(msgs) |-> i], LAMBDA i : msgs[i].role = "user")

\* a cut at the newest "user" message
CutIndex_newest(user_indices) == user_indices[Len(user_indices)]

\* cut_index = user_indices[1], the second "user" message
CutIndex(user_indices) == user_indices[2]

\* a trim that keeps the newest target_len messages wherever that cuts
_trim_messages_byLength(msgs, N) ==
    IF Len(msgs) > N * 2
    THEN SubSeq(msgs, Len(msgs) - N * 2 + 1, Len(msgs))
    ELSE msgs

RECURSIVE _trim_messages(_, _)
_trim_messages(msgs, N) ==
    LET target_len == N * 2
        user_indices == UserIndices(msgs)
    IN  IF Len(msgs) > target_len /\ Len(user_indices) >= 2
        THEN _trim_messages(SubSeq(msgs, CutIndex(user_indices), Len(msgs)),
                            N)
        ELSE msgs

\* the scan of reversed(self._messages) that ends send_message
RECURSIVE LastAssistantContent(_, _)
LastAssistantContent(msgs, i) ==
    IF i = 0 THEN ""
    ELSE IF msgs[i].role = "assistant" /\ msgs[i].content # ""
    THEN msgs[i].content
    ELSE LastAssistantContent(msgs, i - 1)

\* a return of the content of the newest message
ReturnValue_newestMessage(msgs) == msgs[Len(msgs)].content

ReturnValue(msgs) == LastAssistantContent(msgs, Len(msgs))

\* ChatSession.__init__: the dispatcher is built without a vector store
Construct(K, N) ==
    /\ cpc = "new"
    /\ ~vector_store
    /\ cpc' = "idle"
    /\ max_tool_rounds' = K
    /\ max_turns' = N
    /\ UNCHANGED <<messages, turn_count, round, tc_idx, op, model_calls,
                   responses, dispatched, synthetic, returned, next_id,
                   session_calls, full_messages, execVars,
                   queryVars>>

\* ChatSession(settings, ..., vector_store=vs), as main.py builds its
\* session: __init__ has no such parameter and the call is a TypeError
ConstructWithVectorStore ==
    /\ cpc = "new"
    /\ vector_store
    /\ cpc' = "raised"
    /\ op' = "__init__"
    /\ UNCHANGED <<max_tool_rounds, max_turns, messages, turn_count, round,
                   tc_idx, model_calls, responses, dispatched, synthetic,
                   returned, next_id, session_calls, full_messages, execVars,
                   queryVars>>

\* a replacement loop test that runs one round more
LoopRuns_oneMore(r) == r <= max_tool_rounds

\* for _round in range(self._max_tool_rounds)
LoopRuns(r) == r < max_tool_rounds

\* send_message at the top of round r (0-based) with history msgs and
\* full_messages just rebuilt from it: the next tool-enabled model call, or
\* the else branch of the loop up to its model call
EnterRound(msgs, r, syn) ==
    /\ round' = r
    /\ IF LoopRuns(r)
       THEN /\ cpc' = "model"
            /\ messages' = msgs
            /\ full_messages' = FullMessages(msgs)
            /\ synthetic' = syn
       ELSE LET asked == Append(msgs, UserMessage(MAX_ROUNDS_MESSAGE))
            IN  /\ cpc' = "final_model"
                /\ messages' = asked
                /\ full_messages' = FullMessages(asked)
                /\ synthetic' = syn + 1

\* send_message returns: the scan for the last non-empty assistant content
ReturnFrom(msgs) ==
    /\ cpc' = "idle"
    /\ messages' = msgs
    /\ full_messages' = <<>>
    /\ returned' = ReturnValue(msgs)

\* a test that lets one more turn pass before trimming
NeedsTrim_oneTurnLate(count) == count > max_turns + 1

\* if self._turn_count > self._max_turns
NeedsTrim(count) == count > max_turns

\* send_message up to its first model call
SendMessage ==
    /\ cpc = "idle"
    /\ session_calls + max_tool_rounds + 1 <= MaxModelCalls
    /\ op' = "send_message"
    /\ turn_count' = turn_count + 1
    /\ model_calls' = <<>>
    /\ responses' = <<>>
    /\ dispatched' = <<>>
    /\ tc_idx' = 0
    /\ LET appended == Append(messages, UserMessage("question"))
       IN  EnterRound(IF NeedsTrim(turn_count + 1)
                      THEN _trim_messages(appended, max_turns)
                      ELSE appended,
                      0, 0)
    /\ UNCHANGED <<max_tool_rounds, max_turns, returned, next_id,
                   session_calls, execVars,
                   queryVars>>

\* the tool-enabled model call of a round answers with content and n tool
\* calls; without tool calls send_message returns
ModelResponse(content, n) ==
    /\ cpc = "model"
    /\ LET response_message ==
               [content |-> content, tool_calls |-> ToolCalls(n, next_id)]
           msgs == Append(messages,
                          AssistantMessage(content,
                                           response_message.tool_calls))
       IN  /\ model_calls' = Append(model_calls,
                                    Create(full_messages, TRUE))
           /\ responses' = Append(responses, response_message)
           /\ IF n = 0
              THEN /\ ReturnFrom(msgs)
                   /\ UNCHANGED tc_idx
              ELSE /\ cpc' = "tools"
                   /\ messages' = msgs
                   /\ tc_idx' = 1
                   /\ UNCHANGED <<returned, full_messages>>
    /\ dispatched' = IF n = 0 THEN dispatched ELSE <<>>
    /\ next_id' = next_id + n
    /\ session_calls' = session_calls + 1
    /\ UNCHANGED <<max_tool_rounds, max_turns, turn_count, round, op,
                   synthetic, execVars,
                   queryVars>>

\* the next tool call in the model's list
NextToolCall_reversed(tool_calls, i) == tool_calls[Len(tool_calls) - i + 1]

\* for tool_call in response_message.tool_calls
NextToolCall(tool_calls, i) == tool_calls[i]

\* what processing one tool call comes to: json.loads raises on the
\* arguments, dispatch raises, or dispatch returns a dict
ToolOutcomes == {"json_error", "dispatch_raises", "returns"}

\* the same, telling the error records among the dicts dispatch returns
\* from the result envelopes
ToolOutcomesWithErrors == ToolOutcomes \cup {"returns_error"}

\* json.dumps(result) for the dict dispatch returned
ToolContent(how) == IF how = "returns" THEN "tool result" ELSE "tool error"

\* a loop that also gives up on an error record
Aborts_onErrorRecord(how) == how \notin {"returns"}

\* the tool call ends send_message with an exception
Aborts(how) == how \in {"json_error", "dispatch_raises"}

\* one tool call of the round is processed; after the last one the loop
\* goes into its next round
ToolResult(how) ==
    /\ cpc = "tools"
    /\ LET tool_calls == responses[Len(responses)].tool_calls
           tool_call == NextToolCall(tool_calls, tc_idx)
       IN  /\ dispatched' = IF how = "json_error" THEN dispatched
                            ELSE Append(dispatched, tool_call.id)
           /\ IF Aborts(how)
              THEN /\ cpc' = "raised"
                   /\ full_messages' = <<>>
                   /\ UNCHANGED <<messages, tc_idx, round, synthetic>>
              ELSE LET msgs == Append(messages,
                                      ToolMessage(tool_call,
                                                  ToolContent(how)))
                   IN  IF tc_idx < Len(tool_calls)
                       THEN /\ messages' = msgs
                            /\ tc_idx' = tc_idx + 1
                            /\ UNCHANGED <<cpc, round, synthetic,
                                           full_messages>>
                       ELSE /\ EnterRound(msgs, round + 1, synthetic)
                            /\ UNCHANGED tc_idx
    /\ UNCHANGED <<max_tool_rounds, max_turns, turn_count, op, model_calls,
                   responses, returned, next_id, session_calls, execVars,
                   queryVars>>

\* the model call without tools after the last round answers
FinalResponse(content) ==
    /\ cpc = "final_model"
    /\ model_calls' = Append(model_calls,
                             Create(full_messages, FALSE))
    /\ responses' = Append(responses,
                           [content |-> content, tool_calls |-> <<>>])
    /\ ReturnFrom(Append(messages, AssistantMessage(content, <<>>)))
    /\ session_calls' = session_calls + 1
    /\ UNCHANGED <<max_tool_rounds, max_turns, turn_count, round, tc_idx, op,
                   dispatched, synthetic, next_id, execVars,
                   queryVars>>

\* a test that finds something to clear in every history
NothingToClear_never(msgs) == FALSE

\* if not self._messages
NothingToClear(msgs) == msgs = <<>>

\* clear up to its model call; on an empty history it returns at once
Clear ==
    /\ cpc = "idle"
    /\ op' = "clear"
    /\ model_calls' = <<>>
    /\ responses' = <<>>
    /\ dispatched' = <<>>
    /\ synthetic' = 0
    /\ IF NothingToClear(messages)
       THEN /\ returned' = "Nothing to clear."
            /\ UNCHANGED cpc
       ELSE /\ session_calls + 1 <= MaxModelCalls
            /\ cpc' = "clear_model"
            /\ UNCHANGED returned
    /\ UNCHANGED <<max_tool_rounds, max_turns, messages, turn_count, round,
                   tc_idx, next_id, session_calls, full_messages, execVars,
                   queryVars>>

\* a summary request that leaves the conversation out
SummaryMessages_noHistory(msgs) ==
    Append(FullMessages(<<>>), UserMessage(CLEAR_SUMMARY_TEMPLATE))

\* summary_messages: the system prompt, the history and the instruction
SummaryMessages(msgs) ==
    Append(FullMessages(msgs), UserMessage(CLEAR_SUMMARY_TEMPLATE))

\* the summary call answers and clear resets the session
ClearResponse(content) ==
    /\ cpc = "clear_model"
    /\ LET summary == IF content # "" THEN content ELSE "Session cleared."
       IN  /\ messages' = <<AssistantMessage(
                               "Previous session context: " \o summary, <<>>)>>
           /\ returned' = summary
    /\ model_calls' = Append(model_calls,
                             Create(SummaryMessages(messages), FALSE))
    /\ responses' = Append(responses,
                           [content |-> content, tool_calls |-> <<>>])
    /\ turn_count' = 0
    /\ cpc' = "idle"
    /\ session_calls' = session_calls + 1
    /\ UNCHANGED <<max_tool_rounds, max_turns, round, tc_idx, op, dispatched,
                   synthetic, next_id, full_messages, execVars,
                   queryVars>>

\* chat.completions.create raises and the call in progress raises with it
ModelRaises ==
    /\ cpc \in {"model", "final_model", "clear_model"}
    /\ cpc' = "raised"
    /\ session_calls' = session_calls + 1
    /\ full_messages' = <<>>
    /\ UNCHANGED <<max_tool_rounds, max_turns, messages, turn_count, round,
                   tc_idx, op, model_calls, responses, dispatched, synthetic,
                   returned, next_id, execVars,
                   queryVars>>

InitChat ==
    /\ max_tool_rounds = 0
    /\ max_turns = 0
    /\ messages = <<>>
    /\ turn_count = 0
    /\ cpc = "new"
    /\ round = 0
    /\ tc_idx = 0
    /\ op = "none"
    /\ model_calls = <<>>
    /\ responses = <<>>
    /\ dispatched = <<>>
    /\ synthetic = 0
    /\ returned = ""
    /\ next_id = 1
    /\ session_calls = 0
    /\ full_messages = <<>>

(***************************************************************************)
(* Direct calls of the query builders of src/queries                       *)
(***************************************************************************)
NoCall == [called |-> FALSE]

\* the keyword names a caller can pass, with one value for each
ParamValues ==
    [time_range |-> StrV("24h"), severity_filter |-> StrV("'High'"),
     limit |-> IntV(20), incident_number |-> IntV(42),
     incident_name |-> StrV("phishing"), bin_size |-> StrV("1h")]

\* the nine registered names and one that is not registered
TemplateNames == DOMAIN TEMPLATE_REGISTRY \cup {"nonexistent"}

\* the keyword dicts a caller can pass
ParamsOver(names) == [p \in names |-> ParamValues[p]]

\* the sets of keyword names tried with a template name: for a registered
\* name every subset of its placeholders and the set of all names, for
\* another name every set of names
ParamSets(template_name) ==
    IF template_name \in DOMAIN TEMPLATE_REGISTRY
    THEN SUBSET TEMPLATE_REGISTRY[template_name] \cup {DOMAIN ParamValues}
    ELSE SUBSET DOMAIN ParamValues

\* min_severity values a caller can pass
SeverityInputs ==
    {StrV(SEVERITY_ORDER[i]) : i \in 1..Len(SEVERITY_ORDER)}
        \cup {StrV("Critical"), StrV("high"), StrV(""), NoneV}

\* build_query(template_name, **params) is called
BuildQuery(template_name, params) ==
    /\ build_call' = [called |-> TRUE, template_name |-> template_name,
                      params |-> params,
                      result |-> build_query(template_name, params)]
    /\ UNCHANGED <<filter_call, execVars, chatVars>>

\* severity_filter(min_severity) is called
SeverityFilter(min_severity) ==
    /\ filter_call' = [called |-> TRUE, min_severity |-> min_severity,
                       result |-> severity_filter(min_severity)]
    /\ UNCHANGED <<build_call, execVars, chatVars>>

InitQueries ==
    /\ build_call = NoCall
    /\ filter_call = NoCall

vars == <<execVars, chatVars, queryVars>>

Init == InitExec /\ InitChat /\ InitQueries

DispatchAny == \E t \in ToolNames : \E a \in ArgsOf(t) : Dispatch(t, a)

BackendReplyAny ==
    \E resp \in Responses(sent[Len(sent)].template) : BackendReply(resp)

Next == DispatchAny \/ (dpc = "waiting" /\ BackendReplyAny) \/ Finish

Spec == Init /\ [][Next]_vars

ConstructAny ==
    \E K \in 0..MaxToolRounds : \E N \in 1..MaxTurns : Construct(K, N)

\* the responses a tool-enabled call is answered with: text or none without
\* tool calls, no text with up to MaxToolCalls tool calls, text with one
ModelResponses ==
    {<<content, 0>> : content \in ModelContents}
        \cup {<<"", n>> : n \in 1..MaxToolCalls}
        \cup {<<content, 1>> : content \in ModelContents}

ModelResponseAny == \E r \in ModelResponses : ModelResponse(r[1], r[2])

ToolResultAny == \E how \in ToolOutcomes : ToolResult(how)

FinalResponseAny == \E content \in ModelContents : FinalResponse(content)

ClearResponseAny == \E content \in ModelContents : ClearResponse(content)

NextChat ==
    \/ ConstructAny
    \/ ConstructWithVectorStore
    \/ SendMessage
    \/ ModelResponseAny
    \/ ToolResultAny
    \/ FinalResponseAny
    \/ Clear
    \/ ClearResponseAny
    \/ ModelRaises

SpecChat == Init /\ [][NextChat]_vars

ToolResultOrErrorAny ==
    \E how \in ToolOutcomesWithErrors : ToolResult(how)

\* the first turn of a session, with tool calls that can come back as error
\* records
NextToolErrors ==
    \/ ConstructAny
    \/ (turn_count = 0 /\ SendMessage)
    \/ ModelResponseAny
    \/ ToolResultOrErrorAny
    \/ FinalResponseAny

SpecToolErrors == Init /\ [][NextToolErrors]_vars

BuildQueryAny ==
    \E template_name \in TemplateNames :
        \E names \in ParamSets(template_name) :
            BuildQuery(template_name, ParamsOver(names))

SeverityFilterAny ==
    \E min_severity \in SeverityInputs : SeverityFilter(min_severity)

NextQueries == BuildQueryAny \/ SeverityFilterAny

SpecQueries == Init /\ [][NextQueries]_vars

(***************************************************************************)
(* Properties of the dispatcher and the executor (checked under Spec)      *)
(***************************************************************************)
IsRetryableError(res) == res.type = "QueryError" /\ res.retry_possible

\* the handler of this dispatch went to the executor
ReachedExecutor == Len(calls) >= 1

\* C1 as stated: every dispatch of a core tool calls the executor once,
\* once more with the same arguments if and only if the first result is a
\* retryable QueryError, returns the last result, and never makes more than
\* two calls.
C1_EveryCoreDispatchCallsExecutor ==
    (dpc = "done" /\ tool \in CORE_TOOLS) =>
        /\ Len(calls) \in {1, 2}
        /\ Len(exec_results) = Len(calls)
        /\ (Len(calls) = 2) <=> IsRetryableError(exec_results[1])
        /\ (Len(calls) = 2) => calls[2] = calls[1]
        /\ ret = to_dict(exec_results[Len(exec_results)])

\* C1 amended: the same for every dispatch of a core tool whose handler
\* reaches the executor; get_incident_detail without an incident reference
\* returns its error record after no executor call at all.  No dispatch
\* makes more than two executor calls, whatever its outcome.
C1_RetryPolicy ==
    /\ Len(calls) <= 2
    /\ Len(exec_results) <= Len(calls)
    /\ (Len(calls) = 2) =>
          (IsRetryableError(exec_results[1]) /\ calls[2] = calls[1])
    /\ (dpc = "done" /\ tool \in CORE_TOOLS /\ ReachedExecutor) =>
          /\ Len(exec_results) = Len(calls)
          /\ (Len(calls) = 2) <=> IsRetryableError(exec_results[1])
          /\ ret = to_dict(exec_results[Len(exec_results)])
    /\ (dpc = "done" /\ tool \in CORE_TOOLS /\ ~ReachedExecutor) =>
          /\ tool = "get_incident_detail"
          /\ args.incident_ref.t \in {"absent", "none"}
          /\ ret = [error |-> "Missing required parameter: incident_ref"]

\* a retryable error followed by a success: two calls, the success returned
C1_Witness ==
    /\ dpc = "done"
    /\ Len(calls) = 2
    /\ IsRetryableError(exec_results[1])
    /\ exec_results[2].type = "QueryResult"
    /\ "metadata" \in DOMAIN ret

\* C6: no public operation of the executor raises, whatever the arguments
\* of the tool call and whatever the backend answers.
C6_ExecutorNeverRaises == dpc # "raised"

CanonicalTimeWindows ==
    {"last_1h", "last_24h", "last_3d", "last_7d", "last_14d", "last_30d"}

FixedTexts ==
    {"1h", "24h", "3d", "7d", "14d", "30d", "1d",
     "'Informational','Low','Medium','High'", "'Low','Medium','High'",
     "'Medium','High'", "'High'"}

\* the text is the decimal rendering of an integer
IsIntegerText(x) == PyInt(x).ok /\ IntToStr(PyInt(x).n) = x

\* C7: every text substituted into a query sent to the backend comes from
\* a fixed table or is the rendering of an integer; no text of the tool
\* arguments is spliced into a query.
C7_NoFreeformTextInQuery ==
    \A i \in 1..Len(sent) : \A p \in DOMAIN sent[i].subst :
        sent[i].subst[p] \in FixedTexts \/ IsIntegerText(sent[i].subst[p])

WindowedMethods ==
    {"query_incidents", "query_alerts", "get_alert_trend", "get_top_entities"}

HasInvalidWindow ==
    /\ Len(calls) >= 1
    /\ calls[1].method \in WindowedMethods
    /\ ~(calls[1].kw.time_window.t = "str"
         /\ calls[1].kw.time_window.s \in CanonicalTimeWindows)

\* C8: a time-window key outside the six canonical keys makes each of the
\* four windowed operations return the non-retryable invalid_time_window
\* error at once: no query reaches the backend and the dispatcher calls the
\* executor exactly once.
C8_InvalidTimeWindow ==
    HasInvalidWindow =>
        /\ dpc = "done"
        /\ Len(calls) = 1
        /\ sent = <<>>
        /\ ret = [code |-> "invalid_time_window",
                  message |-> "Unknown time window",
                  retry_possible |-> FALSE]

C8_Witness ==
    /\ HasInvalidWindow
    /\ tool = "get_alert_trend"
    /\ args.time_window = StrV("yesterday")
    /\ dpc = "done"

HardMaximum ==
    [list_incidents |-> 100, list_alerts |-> 100, top_entities |-> 50]

\* C9: the limit rendered into a list or ranking query never exceeds the
\* operation's hard maximum; a request above the maximum renders the
\* maximum, a request at or below it renders the requested value.
C9_LimitClamped ==
    \A i \in 1..Len(sent) :
        sent[i].template \in DOMAIN HardMaximum =>
            LET requested == calls[1].kw.limit.n
                cap == HardMaximum[sent[i].template]
                rendered == PyInt(sent[i].subst.limit)
            IN  /\ rendered.ok
                /\ rendered.n <= cap
                /\ requested > cap => rendered.n = cap
                /\ requested <= cap => rendered.n = requested

C9_Witness ==
    /\ Len(sent) >= 1
    /\ sent[1].template = "top_entities"
    /\ calls[1].kw.limit = IntV(51)
    /\ sent[1].subst.limit = "50"

IsFailure(resp) == resp.status \in {"FAILURE", "HttpResponseError", "Exception"}

\* C10 as stated: a failure is retryable exactly when it is rate-limited
\* (429), service unavailable (503) or a gateway timeout (504).
C10_OnlyThreeTransientClasses ==
    IsFailure(reply) =>
        /\ outcome.type = "QueryError"
        /\ outcome.retry_possible <=>
              (reply.status = "HttpResponseError"
               /\ reply.status_code \in {429, 503, 504})

\* C10 amended: a failure is retryable exactly when it is an HTTP error
\* whose status is 429, 500, 502, 503 or 504; every other failure (bad
\* request, auth failure, an HTTP error without a status, an unexpected
\* query status, any other exception) is not.  For a single-query operation
\* the error goes to the dispatcher as classified.
C10_ErrorClassification ==
    IsFailure(reply) =>
        /\ outcome.type = "QueryError"
        /\ outcome.retry_possible <=>
              (reply.status = "HttpResponseError"
               /\ reply.status_code \in {429, 500, 502, 503, 504})
        /\ (Len(calls) >= 1 /\ calls[1].method \in WindowedMethods) =>
              exec_results[Len(exec_results)] = outcome

C10_Witness ==
    /\ reply.status = "HttpResponseError"
    /\ reply.status_code = 502
    /\ dpc = "done"
    /\ tool = "query_alerts"
    /\ Len(calls) = 2
    /\ ret.retry_possible

(***************************************************************************)
(* Properties of the chat session (checked under SpecChat)                 *)
(***************************************************************************)
\* a send_message call has returned and no call has started since
SendMessageReturned == cpc = "idle" /\ op = "send_message"

\* C2: a send_message call on a session of K tool rounds whose tool-enabled
\* responses all request tools makes K + 1 model calls, the first K with
\* the tool schema and the last without it, the last one after the single
\* synthetic instruction it appends; a call whose round j <= K is answered
\* without tool calls makes exactly j model calls, all with the schema, and
\* appends no synthetic message.
C2_RoundBudget ==
    SendMessageReturned =>
        LET K == max_tool_rounds
            calls_made == Len(model_calls)
            plain == {i \in 1..calls_made :
                        model_calls[i].tools /\ responses[i].tool_calls = <<>>}
        IN  /\ Len(responses) = calls_made
            /\ IF plain = {}
               THEN /\ calls_made = K + 1
                    /\ \A i \in 1..K : model_calls[i].tools
                    /\ ~model_calls[K + 1].tools
                    /\ synthetic = 1
                    /\ model_calls[K + 1].last
                           = UserMessage(MAX_ROUNDS_MESSAGE)
                    /\ \A i \in 1..K :
                          model_calls[i].last
                              # UserMessage(MAX_ROUNDS_MESSAGE)
               ELSE \E j \in 1..K :
                       /\ plain = {j}
                       /\ calls_made = j
                       /\ \A i \in 1..j : model_calls[i].tools
                       /\ synthetic = 0

\* a call that used up a budget of at least two rounds
C2_Witness ==
    /\ SendMessageReturned
    /\ max_tool_rounds >= 2
    /\ Len(model_calls) = max_tool_rounds + 1
    /\ synthetic = 1

\* C3: send_message returns the content of the model response that ended
\* its loop, empty or not, and never the content of an earlier message.
C3_ReturnsEndingResponse ==
    SendMessageReturned => returned = responses[Len(responses)].content

HasCall(m, id) == \E k \in 1..Len(m.tool_calls) : m.tool_calls[k].id = id

\* every tool result follows the assistant message that carries its call id,
\* with only tool results of that message between them
ToolResultsAnchored(msgs) ==
    \A i \in 1..Len(msgs) :
        msgs[i].role = "tool" =>
            \E j \in 1..(i - 1) :
                /\ msgs[j].role = "assistant"
                /\ \A k \in (j + 1)..i :
                      /\ msgs[k].role = "tool"
                      /\ HasCall(msgs[j], msgs[k].tool_call_id)

\* every assistant message with tool calls is followed by their results
ToolCallsAnswered(msgs) ==
    \A j \in 1..Len(msgs) :
        LET n == Len(msgs[j].tool_calls)
        IN  /\ j + n <= Len(msgs)
            /\ \A k \in 1..n :
                  /\ msgs[j + k].role = "tool"
                  /\ msgs[j + k].tool_call_id = msgs[j].tool_calls[k].id

\* C4: as long as no call has raised, every tool-result message of the
\* history follows the assistant message whose descriptors hold its call id
\* with only that message's tool results between, and outside a round in
\* progress every assistant message with tool calls still has all its
\* results behind it: trimming keeps or drops them together.
C4_ToolCallOrdering ==
    cpc # "raised" =>
        /\ ToolResultsAnchored(messages)
        /\ cpc # "tools" => ToolCallsAnswered(messages)

\* a send_message that trimmed the history and kept a tool round in it
C4_Witness ==
    /\ cpc \in {"model", "final_model"}
    /\ model_calls = <<>>
    /\ turn_count > max_turns
    /\ \E i \in 1..Len(messages) : messages[i].role = "tool"

IdsOf(tool_calls) == [i \in 1..Len(tool_calls) |-> tool_calls[i].id]

ToolRounds == {i \in 1..Len(responses) : responses[i].tool_calls # <<>>}

\* C5: the tool calls of a round are dispatched one at a time in the
\* model's order, each once, and the next model call waits for all of them;
\* the history then holds their results directly after the round's
\* assistant message, in the same order, each tagged with its call's id.
C5_ToolCallsInOrder ==
    (op = "send_message" /\ cpc # "raised" /\ ToolRounds # {}) =>
        LET latest == CHOOSE i \in ToolRounds : \A k \in ToolRounds : k <= i
            tool_calls == responses[latest].tool_calls
            n == Len(tool_calls)
            done == IF cpc = "tools" THEN tc_idx - 1 ELSE n
        IN  /\ dispatched = SubSeq(IdsOf(tool_calls), 1, done)
            /\ \E j \in 1..Len(messages) :
                  /\ messages[j] =
                         AssistantMessage(responses[latest].content,
                                          tool_calls)
                  /\ j + done <= Len(messages)
                  /\ \A i \in 1..done :
                        /\ messages[j + i].role = "tool"
                        /\ messages[j + i].tool_call_id = tool_calls[i].id
                  /\ \/ Len(messages) = j + done
                     \/ /\ cpc # "tools"
                        /\ messages[j + done + 1].role # "tool"

\* both calls of a two-call round are done and the next model call is due
C5_Witness ==
    /\ cpc = "model"
    /\ op = "send_message"
    /\ Len(dispatched) = 2
    /\ Len(responses[Len(responses)].tool_calls) = 2

(***************************************************************************)
(* Further properties of the executor and the dispatcher (under Spec)      *)
(***************************************************************************)
SingleQueryMethods ==
    {"query_incidents", "query_alerts", "get_alert_trend", "get_top_entities"}

\* a single-query operation has ended on a backend answer with this status
SingleQueryEndedOn(status) ==
    /\ dpc \in {"done", "raised"}
    /\ calls # <<>>
    /\ calls[Len(calls)].method \in SingleQueryMethods
    /\ reply.status = status

\* C11: a single-query operation answered with a partial status returns a
\* QueryResult with truncated = TRUE, a non-empty partial_error and every
\* returned row parsed into results; answered with a success status it
\* returns one with truncated = FALSE and no partial_error.
C11_PartialOutcome ==
    \A status \in {"SUCCESS", "PARTIAL"} :
        SingleQueryEndedOn(status) =>
            /\ dpc = "done"
            /\ DOMAIN ret = {"metadata", "results"}
            /\ ret.metadata.truncated = (status = "PARTIAL")
            /\ IF status = "PARTIAL"
               THEN /\ ret.metadata.partial_error.t = "str"
                    /\ ret.metadata.partial_error.s # ""
               ELSE ret.metadata.partial_error = NoneV
            /\ ret.results
                   = SingleParse(calls[Len(calls)].method, reply.rows)
            /\ ret.metadata.total = Len(reply.rows)

\* the incidents get_incident_detail holds after a step: in its frame while
\* it waits for the next answer, in its result once it has returned
IncidentsBefore == frame.incidents

IncidentsAfter ==
    IF dpc' = "waiting" THEN frame'.incidents
    ELSE ret'.results[1].incidents

\* rows of an answer: those of a full or partial answer, none of a failure
RowsReturned(resp) ==
    IF resp.status \in {"SUCCESS", "PARTIAL"} THEN Len(resp.rows) ELSE 0

\* every incident of a query_incidents result has entity_count 0
ListEntityCountsZero ==
    (dpc = "done" /\ tool = "query_incidents" /\ "results" \in DOMAIN ret) =>
        \A k \in 1..Len(ret.results) : ret.results[k].entity_count = 0

\* the answer to the entities sub-query of incident i sets that incident's
\* entity_count, 0 until then, to the number of rows of that answer and
\* leaves the other incidents' counts alone
EntityCountFromOwnSubQuery ==
    (/\ dpc = "waiting"
     /\ frame.method = "get_incident_detail"
     /\ frame.phase = "entities")
    => \A resp \in Responses("get_incident_entities") :
        BackendReply(resp)
        => /\ dpc' \in {"waiting", "done"}
           /\ IncidentsBefore[frame.i].entity_count = 0
           /\ Len(IncidentsAfter) = Len(IncidentsBefore)
           /\ IncidentsAfter[frame.i].entity_count = RowsReturned(resp)
           /\ \A k \in 1..Len(IncidentsBefore) :
                 k # frame.i =>
                     IncidentsAfter[k].entity_count
                         = IncidentsBefore[k].entity_count

\* C12: every incident returned by query_incidents has entity_count 0
\* whatever its row holds; every incident of a get_incident_detail result has
\* the entity_count its own entities sub-query set, the number of rows that
\* sub-query returned, and no other step changes it.
C12_EntityCount ==
    /\ []ListEntityCountsZero
    /\ [][EntityCountFromOwnSubQuery]_vars
    /\ [][(frame.method = "get_incident_detail"
            /\ frame.phase = "alerts" /\ dpc' = "waiting")
           => \A k \in 1..Len(IncidentsBefore) :
                 IncidentsAfter[k].entity_count
                     = IncidentsBefore[k].entity_count]_vars

\* a detail result of two incidents whose entity sub-queries returned
\* different numbers of rows
C12_Witness ==
    /\ dpc = "done"
    /\ tool = "get_incident_detail"
    /\ "results" \in DOMAIN ret
    /\ Len(ret.results[1].incidents) = 2
    /\ ret.results[1].incidents[1].entity_count = 2
    /\ ret.results[1].incidents[2].entity_count = 1
    /\ Len(ret.results[1].entities) = 3

(***************************************************************************)
(* Further properties of the chat session (under SpecChat)                 *)
(***************************************************************************)
\* indices of the user messages the caller sent, ascending
CallerIndices(msgs) ==
    SelectSeq([i \in 1..Len(msgs) |-> i],
              LAMBDA i : msgs[i] = UserMessage("question"))

\* the messages of the first turn of an untrimmed history
FirstTurnLen(msgs) ==
    IF Len(CallerIndices(msgs)) >= 2 THEN CallerIndices(msgs)[2] - 1
    ELSE Len(msgs)

\* N turns of a fresh session are in the history, none trimmed or cleared
FreshAfterNTurns ==
    /\ cpc = "idle"
    /\ turn_count = max_turns
    /\ messages # <<>>
    /\ messages[1] = UserMessage("question")
    /\ Len(CallerIndices(messages)) = max_turns

\* the history as send_message leaves it before its loop
HistoryAtLoopEntry ==
    IF cpc' = "final_model" THEN SubSeq(messages', 1, Len(messages') - 1)
    ELSE messages'

\* C13: on a fresh session with max_turns = N, the send_message of turn
\* N + 1 leaves a history that is an end piece of the old one with the new
\* user message, holding no message of the first turn and ending with the
\* new user message.
C13_TrimmingByTurns ==
    [][(FreshAfterNTurns /\ SendMessage) =>
          LET appended == Append(messages, UserMessage("question"))
              kept == HistoryAtLoopEntry
              removed == Len(appended) - Len(kept)
          IN  /\ removed >= FirstTurnLen(messages)
              /\ kept = SubSeq(appended, removed + 1, Len(appended))
              /\ kept # <<>>
              /\ turn_count' = max_turns + 1]_vars

\* the third turn of a session with max_turns = 2 has been answered after
\* a first turn that ran a tool round
C13_Witness ==
    /\ SendMessageReturned
    /\ max_turns = 2
    /\ turn_count = 3
    /\ next_id > 1
    /\ Len(CallerIndices(messages)) = 1
    /\ messages[1] = UserMessage("question")

C15_ClearOnEmpty ==
    [][(messages = <<>> /\ Clear) =>
          /\ cpc' = "idle"
          /\ returned' = "Nothing to clear."
          /\ model_calls' = <<>>
          /\ session_calls' = session_calls
          /\ UNCHANGED <<messages, turn_count>>]_vars

\* clear has returned on an empty history
C15_Witness ==
    /\ cpc = "idle"
    /\ op = "clear"
    /\ messages = <<>>
    /\ returned = "Nothing to clear."
    /\ session_calls = 0

\* a model call of send_message is answered
SendMessageCallAnswered == ModelResponseAny \/ FinalResponseAny

\* C16: the system prompt is never stored in the history, and every model
\* call of send_message passes the system prompt followed by the history
\* as it stands at that call.
C16_SystemPromptPerCall ==
    /\ [](\A i \in 1..Len(messages) : messages[i].role # "system")
    /\ [][SendMessageCallAnswered =>
            /\ Len(model_calls') = Len(model_calls) + 1
            /\ model_calls'[Len(model_calls')].messages
                   = <<Message("system", SYSTEM_PROMPT, <<>>, 0)>> \o messages]_vars

\* a turn on a history of earlier turns whose second model call carried the
\* first round's tool results
C16_Witness ==
    /\ SendMessageReturned
    /\ turn_count >= 2
    /\ Len(model_calls) >= 2
    /\ model_calls[2].length > model_calls[1].length + 1
    /\ model_calls[2].messages[model_calls[2].length].role = "tool"
    /\ model_calls[1].first.role = "system"

(***************************************************************************)
(* Properties of dispatch and of the query builders (under Spec)           *)
(***************************************************************************)
\* the name dispatched is not one the dispatcher registered
NotRegistered ==
    /\ tool # "none"
    /\ tool \notin CORE_TOOLS
    /\ ~vector_store \/ tool \notin KB_TOOLS

\* C17: dispatching a name outside the dispatcher's mapping returns exactly
\* {error: "Unknown tool: <name>"} and calls neither the executor nor the
\* knowledge base; without a vector store that covers the three
\* knowledge-base tool names.
C17_UnknownTool ==
    NotRegistered =>
        /\ dpc = "done"
        /\ ret = [error |-> "Unknown tool: " \o tool]
        /\ calls = <<>>
        /\ sent = <<>>
        /\ kb_calls = 0

\* a knowledge-base tool dispatched without a vector store
C17_Witness ==
    /\ dpc = "done"
    /\ ~vector_store
    /\ tool = "get_investigation_guidance"
    /\ ret = [error |-> "Unknown tool: get_investigation_guidance"]
    /\ kb_calls = 0

\* dispatch has come to its end, by a return or by an exception
DispatchEnded == dpc \in {"done", "raised"}

\* C18: for every tool name and every argument map, dispatch returns plain
\* structured data (a result envelope or an error record) and propagates no
\* exception to its caller.
C18_DispatchNeverRaises ==
    DispatchEnded =>
        /\ "raised" \notin DOMAIN ret
        /\ \/ "error" \in DOMAIN ret
           \/ "code" \in DOMAIN ret
           \/ "metadata" \in DOMAIN ret
           \/ "type" \in DOMAIN ret

(***************************************************************************)
(* Properties of the query builders (under SpecQueries)                    *)
(***************************************************************************)
RegisteredTemplates ==
    {"list_incidents", "get_incident_by_number", "get_incident_by_name",
     "get_incident_alerts", "get_incident_entities", "list_alerts",
     "alert_trend", "alert_trend_total", "top_entities"}

\* C19: for each of the nine registered templates and every subset S of
\* its placeholders, build_query given exactly the placeholders outside S
\* fails with a missing-parameters error naming precisely S when S is not
\* empty and renders when S is empty; a name that is not registered fails
\* with an unknown-template error whatever the parameters.
C19_BuildQuery ==
    /\ DOMAIN TEMPLATE_REGISTRY = RegisteredTemplates
    /\ Cardinality(RegisteredTemplates) = 9
    /\ build_call.called =>
          LET t == build_call.template_name
              supplied == DOMAIN build_call.params
              r == build_call.result
          IN  IF t \in RegisteredTemplates
              THEN supplied \subseteq TEMPLATE_REGISTRY[t] =>
                      LET S == TEMPLATE_REGISTRY[t] \ supplied
                      IN  IF S = {}
                          THEN /\ r.ok
                               /\ r.template = t
                               /\ DOMAIN r.subst = supplied
                               /\ \A p \in supplied :
                                      r.subst[p] = Format(build_call.params[p])
                          ELSE /\ ~r.ok
                               /\ r.error = "missing_parameters"
                               /\ r.missing = S
              ELSE /\ ~r.ok
                   /\ r.error = "unknown_template"

\* list_incidents built with its limit only: two placeholders are missing
\* and both are named
C19_Witness ==
    /\ build_call.called
    /\ build_call.template_name = "list_incidents"
    /\ DOMAIN build_call.params = {"limit"}
    /\ ~build_call.result.ok
    /\ build_call.result.missing = {"time_range", "severity_filter"}

ExpectedFilter ==
    [Informational |-> "'Informational','Low','Medium','High'",
     Low |-> "'Low','Medium','High'",
     Medium |-> "'Medium','High'",
     High |-> "'High'"]

\* the number of levels a filter text lists
LevelsIn(text) ==
    Cardinality({i \in 1..Len(text) : CharAt(text, i) = ","}) + 1

\* C20: severity_filter returns, for a recognized level, exactly the levels
\* at or above it in the order Informational < Low < Medium < High; the
\* result does not grow as the threshold rises; an unrecognized or empty
\* input gives all four levels, as Informational does.
C20_SeverityFilter ==
    filter_call.called =>
        LET m == filter_call.min_severity
            r == filter_call.result
        IN  IF m.t = "str" /\ m.s \in DOMAIN ExpectedFilter
            THEN /\ r = ExpectedFilter[m.s]
                 /\ \A i \in 1..Len(SEVERITY_ORDER) :
                       SEVERITY_ORDER[i] = m.s =>
                           /\ LevelsIn(r) = Len(SEVERITY_ORDER) - i + 1
                           /\ \A j \in 1..i :
                                 LevelsIn(severity_filter(
                                     StrV(SEVERITY_ORDER[j]))) >= LevelsIn(r)
            ELSE /\ r = ExpectedFilter["Informational"]
                 /\ r = severity_filter(StrV("Informational"))
                 /\ LevelsIn(r) = 4

\* severity_filter called with the empty text
C20_Witness ==
    /\ filter_call.called
    /\ filter_call.min_severity = StrV("")
    /\ filter_call.result = "'Informational','Low','Medium','High'"

(***************************************************************************)
(* Properties of the tool loop on error records (under SpecToolErrors)     *)
(***************************************************************************)
\* C21: an error record returned by the dispatcher is appended as the tool
\* result of its call like any other result; the remaining tool calls of
\* the round are still dispatched and the next model call follows: the loop
\* is not aborted and the record is not returned as the answer.
C21_ToolErrorsAreContent ==
    /\ [][ToolResult("returns_error") =>
            LET tool_calls == responses[Len(responses)].tool_calls
                tool_call == tool_calls[tc_idx]
                appended == Append(messages,
                                   [role |-> "tool", content |-> "tool error",
                                    tool_calls |-> <<>>,
                                    tool_call_id |-> tool_call.id])
            IN  /\ dispatched' = Append(dispatched, tool_call.id)
                /\ returned' = returned
                /\ IF tc_idx < Len(tool_calls)
                   THEN /\ cpc' = "tools"
                        /\ tc_idx' = tc_idx + 1
                        /\ messages' = appended
                   ELSE \/ /\ cpc' = "model"
                           /\ messages' = appended
                        \/ /\ cpc' = "final_model"
                           /\ messages'
                                = Append(appended,
                                         UserMessage(MAX_ROUNDS_MESSAGE))]_vars
    /\ [](SendMessageReturned => returned \in ModelContents)

\* a turn has returned the model's answer after a round whose first tool
\* call came back as an error record and whose second call was dispatched
C21_Witness ==
    /\ SendMessageReturned
    /\ returned = "answer"
    /\ Len(model_calls) >= 2
    /\ \E i \in 1..(Len(messages) - 1) :
          /\ messages[i].role = "tool"
          /\ messages[i].content = "tool error"
          /\ messages[i + 1].role = "tool"
          /\ messages[i + 1].tool_call_id = messages[i].tool_call_id + 1

(***************************************************************************)
(* Further properties of the chat session (under SpecChat)                 *)
(***************************************************************************)
\* the tools of every tool-enabled model call are those the session's
\* dispatcher, built without a vector store, has a handler for
OfferedToolsDispatchable ==
    \A i \in 1..Len(model_calls) :
        model_calls[i].tools =>
            \A t \in model_calls[i].offered :
                LET h == dispatch(t, NoArgs, FALSE)
                IN  ~(h.k = "direct"
                      /\ h.ret = [error |-> "Unknown tool: " \o t])

\* C22: a session built without a vector store offers exactly the 5 core
\* tools on every tool-enabled model call, a session built with one offers
\* the 5 core and the 3 knowledge-base tools, and no tool offered is
\* answered by the session's dispatcher with an unknown-tool error.
C22_ToolSchemaMatchesDispatcher ==
    /\ ~(cpc = "raised" /\ op = "__init__")
    /\ \A i \in 1..Len(model_calls) :
          model_calls[i].tools =>
              /\ model_calls[i].offered
                   = IF vector_store THEN CORE_TOOLS \cup KB_TOOLS
                     ELSE CORE_TOOLS
              /\ Cardinality(model_calls[i].offered)
                   = IF vector_store THEN 8 ELSE 5
    /\ OfferedToolsDispatchable

\* the loop of _trim_messages run on msgs: every iteration that cuts does so
\* at the second-earliest "user" message, which drops a non-empty prefix,
\* and the loop is left with at most 2N messages or fewer than two "user"
\* messages
RECURSIVE EveryCutAtSecondUser(_, _)
EveryCutAtSecondUser(msgs, N) ==
    LET user_indices == UserIndices(msgs)
        cut_index == CutIndex(user_indices)
        rest == SubSeq(msgs, cut_index, Len(msgs))
    IN  IF Len(msgs) > N * 2 /\ Len(user_indices) >= 2
        THEN /\ cut_index \in 2..Len(msgs)
             /\ msgs[cut_index].role = "user"
             /\ Cardinality({i \in 1..(cut_index - 1) :
                                msgs[i].role = "user"}) = 1
             /\ Len(rest) < Len(msgs)
             /\ EveryCutAtSecondUser(rest, N)
        ELSE Len(msgs) <= N * 2 \/ Len(user_indices) < 2

\* C23: trimming terminates without error; it returns with at most
\* 2 * max_turns messages or with fewer than two "user" messages; every cut
\* removes exactly the non-empty prefix before the second-earliest "user"
\* message, so the history loses a prefix only and keeps the user message
\* just appended.
C23_TrimmingTerminates ==
    [][(SendMessage /\ turn_count + 1 > max_turns) =>
          LET appended == Append(messages, UserMessage("question"))
              kept == HistoryAtLoopEntry
              removed == Len(appended) - Len(kept)
          IN  /\ EveryCutAtSecondUser(appended, max_turns)
              /\ removed \in 0..(Len(appended) - 1)
              /\ kept = SubSeq(appended, removed + 1, Len(appended))
              /\ kept[Len(kept)] = UserMessage("question")
              /\ \/ Len(kept) <= max_turns * 2
                 \/ Len(UserIndices(kept)) < 2
              /\ cpc' \in {"model", "final_model"}]_vars

\* send_message has just trimmed the earlier turns away, which leaves the
\* user message it appended
C23_Witness ==
    /\ cpc = "model"
    /\ round = 0
    /\ turn_count > max_turns
    /\ Len(CallerIndices(messages)) < turn_count
    /\ Len(UserIndices(messages)) = 1
    /\ max_turns = 1

(***************************************************************************)
(* Properties of the detail lookup (under Spec)                            *)
(***************************************************************************)
\* a dispatch has ended whose last executor call was get_incident_detail
DetailLookupEnded ==
    /\ dpc \in {"done", "raised"}
    /\ calls # <<>>
    /\ calls[Len(calls)].method = "get_incident_detail"
    /\ sent # <<>>

\* the queries of that last call: a call before it ended on its primary
\* query, with the retryable error that made the dispatcher call again
DetailQueries == SubSeq(sent, Len(calls), Len(sent))

\* the primary query is the lookup by exact number for an integer
\* reference and the lookup by title, capped at 10 results, for anything else
PrimaryQueryMatches(q, incident_ref) ==
    IF incident_ref.t = "int"
    THEN /\ q.template = "get_incident_by_number"
         /\ q.subst = [incident_number |-> IntToStr(incident_ref.n)]
    ELSE /\ q.template = "get_incident_by_name"
         /\ q.subst.limit = "10"
         /\ q.subst.incident_name = Format(incident_ref)

\* C24: get_incident_detail issues one primary query; if that fails it
\* returns the error and issues no other query; otherwise it issues, for
\* each matched incident in result order, the alerts query and then the
\* entities query for the incident's number, 1 + 2n queries in all, and
\* returns one envelope of incidents, alerts and entities with
\* metadata.total = n.
C24_DetailSequencing ==
    DetailLookupEnded =>
        LET q == DetailQueries
        IN  /\ PrimaryQueryMatches(q[1], calls[Len(calls)].kw.incident_ref)
            /\ dpc = "done"
            /\ IF "code" \in DOMAIN ret
               THEN Len(q) = 1
               ELSE /\ Len(ret.results) = 1
                    /\ DOMAIN ret.results[1]
                         = {"incidents", "alerts", "entities"}
                    /\ LET incidents == ret.results[1].incidents
                           n == Len(incidents)
                       IN  /\ ret.metadata.total = n
                           /\ Len(q) = 1 + 2 * n
                           /\ \A k \in 1..n :
                                 /\ q[2 * k].template = "get_incident_alerts"
                                 /\ q[2 * k + 1].template
                                      = "get_incident_entities"
                                 /\ q[2 * k].subst
                                      = [incident_number |->
                                           IntToStr(incidents[k].number)]
                                 /\ q[2 * k + 1].subst = q[2 * k].subst

\* C27: get_incident_detail does not hide an incomplete query: when the
\* backend answers a query of the lookup with anything but a full success,
\* the lookup returns an error or a result marked truncated or carrying a
\* partial_error, at once or, the flag being kept in its locals, when it
\* has issued its remaining queries.
C27_NoHiddenIncompleteQuery ==
    [][(dpc = "waiting" /\ frame.method = "get_incident_detail") =>
          \A resp \in Responses(sent[Len(sent)].template) :
              (resp.status # "SUCCESS" /\ BackendReply(resp)) =>
                  CASE dpc' = "waiting" /\ Len(calls') = Len(calls) ->
                          frame'.is_partial
                    [] dpc' = "done" ->
                          \/ "code" \in DOMAIN ret'
                          \/ ret'.metadata.truncated
                          \/ ret'.metadata.partial_error # NoneV
                    [] OTHER -> TRUE]_vars

(***************************************************************************)
(* Properties of the value and of the history send_message leaves          *)
(* (under SpecChat)                                                        *)
(***************************************************************************)
\* positions of the assistant messages with non-empty content
AnsweringIndices(msgs) ==
    {i \in 1..Len(msgs) : msgs[i].role = "assistant" /\ msgs[i].content # ""}

\* C25: send_message returns the content of the most recent assistant
\* message of the history whose content is not empty, and the empty string
\* when the history has no such message.
C25_ResponseExtraction ==
    SendMessageReturned =>
        LET answering == AnsweringIndices(messages)
        IN  IF answering = {} THEN returned = ""
            ELSE \E i \in answering :
                    /\ \A j \in answering : j <= i
                    /\ returned = messages[i].content

\* the newest assistant message is empty and the value returned is the
\* content of an older one
C25_Witness ==
    /\ SendMessageReturned
    /\ messages[Len(messages)].role = "assistant"
    /\ messages[Len(messages)].content = ""
    /\ returned = "answer"

\* send_message or clear has ended, by a return or by an exception
CallEnded == cpc \in {"idle", "raised"}

\* C26: however send_message ends, by a return or by an exception of a
\* model call, of the decoding of a tool call's arguments or of the
\* dispatcher, every assistant message of the history that carries tool
\* calls is directly followed by one tool-result message per call.
C26_HistoryWellFormedAfterExceptions ==
    CallEnded => ToolCallsAnswered(messages)

\* C28: a trim that removed messages leaves a history whose first message
\* is a user utterance supplied by the caller, not the round-budget
\* instruction and not an assistant or tool message from inside a turn.
C28_TrimmingWholeTurns ==
    [][(SendMessage /\ turn_count + 1 > max_turns) =>
          LET appended == Append(messages, UserMessage("question"))
              kept == HistoryAtLoopEntry
          IN  Len(kept) < Len(appended) =>
                  /\ kept[1].role = "user"
                  /\ kept[1].content # MAX_ROUNDS_MESSAGE
                  /\ kept[1] = UserMessage("question")]_vars

(***************************************************************************)
(* Properties of the backend load and of the rendered limit (under Spec)   *)
(***************************************************************************)
\* queries of the given templates sent during this dispatch
SentOf(templates) ==
    Cardinality({i \in 1..Len(sent) : sent[i].template \in templates})

\* the incidents the primary lookup of the detail call in progress matched
MatchedIncidents ==
    IF dpc = "waiting" THEN Len(frame.incidents)
    ELSE IF dpc = "done" /\ "results" \in DOMAIN ret
    THEN Len(ret.results[1].incidents)
    ELSE 0

\* C29: one dispatch of a single-query tool issues at most two backend
\* queries, none on an invalid time window and two only after a retryable
\* error of the first; one dispatch of get_incident_detail issues at most
\* 2 + 2n, n being the incidents matched by the primary lookup that
\* succeeded, with the alerts and the entities query at most once for each
\* incident.
C29_BackendLoadBounded ==
    /\ tool \in WindowedMethods =>
          /\ Len(sent) <= 2
          /\ HasInvalidWindow => Len(sent) = 0
          /\ Len(sent) = 2 =>
                /\ exec_results # <<>>
                /\ IsRetryableError(exec_results[1])
    /\ tool = "get_incident_detail" =>
          /\ Len(sent) <= 2 + 2 * MatchedIncidents
          /\ SentOf(PrimaryTemplates) <= 2
          /\ SentOf(PrimaryTemplates) = 2 =>
                /\ exec_results # <<>>
                /\ IsRetryableError(exec_results[1])
          /\ SentOf({"get_incident_alerts"}) <= MatchedIncidents
          /\ SentOf({"get_incident_entities"}) <= MatchedIncidents
          /\ SentOf(PrimaryTemplates) + SentOf(DependentTemplates) = Len(sent)

\* a detail lookup retried after a retryable error that then matched two
\* incidents and issued all its 2 + 2 * 2 queries
C29_Witness ==
    /\ dpc = "done"
    /\ tool = "get_incident_detail"
    /\ Len(calls) = 2
    /\ "results" \in DOMAIN ret
    /\ Len(ret.results[1].incidents) = 2
    /\ Len(sent) = 6

\* C30: the limit rendered into a list or ranking query is an integer from
\* 1 to the operation's hard maximum, whatever integer the tool call
\* supplies, zero and negative values included.
C30_RenderedLimitInRange ==
    \A i \in 1..Len(sent) :
        sent[i].template \in DOMAIN HardMaximum =>
            LET rendered == PyInt(sent[i].subst.limit)
            IN  /\ rendered.ok
                /\ rendered.n \in 1..HardMaximum[sent[i].template]

====
